---- MODULE Spec2Model ----
(***************************************************************************)
(* Home Assistant platforms: the Radio Thermostat adapter                  *)
(* (components/thermostat/radiotherm.py) and the BloomSky camera           *)
(* (components/camera/bloomsky.py).                                        *)
(*                                                                         *)
(* Temperatures are integers counting twentieths of a degree Fahrenheit    *)
(* (1404 is 70.2 F, 1405 is 70.25 F), so that round(x, 1) is a real        *)
(* conversion: raw values lie on the quarter-degree grid the floats        *)
(* represent exactly, or on the tenth-degree grid round() produces.        *)
(*                                                                         *)
(* The radiotherm device object is taken to hold what is written to it:    *)
(* a read of t_cool, t_heat or hold returns the last value written by the  *)
(* adapter or set on the device itself.  Its temperature reading is an     *)
(* input of each update.                                                   *)
(***************************************************************************)
EXTENDS Integers, Sequences, FiniteSets, TLC

VARIABLES
    \* ---- the radiotherm device behind one RadioThermostat (self.device)
    dev_tmode,            \* device.tmode['human']
    dev_t_cool,           \* device.t_cool['raw']
    dev_t_heat,           \* device.t_heat['raw']
    dev_hold,             \* device.hold
    dev_name,             \* device.name['raw']
    \* ---- the RadioThermostat entity
    target_temperature,   \* self._target_temperature
    current_temperature,  \* self._current_temperature
    operation,            \* self._operation
    name,                 \* self._name
    hold_temp,            \* self.hold_temp
    away,                 \* self.away
    away_delta,           \* self.away_delta
    old_temp,             \* self.old_temp
    \* ---- observation of the calls made on the entity
    op,                   \* the last operation performed
    on_target,            \* target_temperature property read when the last
                          \* turn_away_mode_on was entered
    on_cool, on_heat,     \* device setpoints when it was entered, kept until
                          \* an operation other than turn_away_mode_off runs
    disturbed,            \* set_temperature was called directly, or the device
                          \* was changed from outside, since construction
    \* ---- setup_platform of the radiotherm platform
    config,               \* the platform's config: host, hold_temp, away_delta
    discovered,           \* what radiotherm.discover.discover_address() finds
    setup_result,         \* how setup_platform ended
    added,                \* the list handed to add_devices
    logged,               \* hosts logged as "Unable to connect"
    \* ---- the BloomSky client (self._bloomsky) and one BloomSkyCamera
    image_url,            \* devices[self._id]["Data"]["ImageURL"], or MISSING
    url,                  \* self._url
    last_url,             \* self._last_url
    last_image,           \* self._last_image
    \* ---- observation of the last camera_image call
    tick,                 \* flips at every call
    observed,             \* what line 44 read: a URL, or MISSING (KeyError)
    refresh_result,       \* how refresh_devices() ended, NOT_RUN if not reached
    get_result,           \* how requests.get ended, NOT_RUN if not made
    gets,                 \* number of requests.get calls the call made
    fetched,              \* response.content of its GET, "" if none succeeded
    outcome,              \* "returned" or "raised"
    ret                   \* the value returned

deviceVars == <<dev_tmode, dev_t_cool, dev_t_heat, dev_hold, dev_name>>
entityVars == <<target_temperature, current_temperature, operation, name,
                hold_temp, away, away_delta, old_temp>>
seenVars   == <<op, on_target, on_cool, on_heat, disturbed>>
thermoVars == <<deviceVars, entityVars, seenVars>>

setupVars  == <<config, discovered, setup_result, added, logged>>
cameraVars == <<image_url, url, last_url, last_image, tick, observed,
                refresh_result, get_result, gets, fetched, outcome, ret>>

vars == <<thermoVars, setupVars, cameraVars>>

----------------------------------------------------------------------------
(* Bounds of the model *)

\* setpoints stay within [MinTemp, MaxTemp] (twentieths of a degree)
MinTemp == 1200
MaxTemp == 1650

----------------------------------------------------------------------------
(* Constants of the program *)

STATE_COOL == "cool"
STATE_HEAT == "heat"
STATE_IDLE == "idle"

\* config.get(AWAY_DELTA, 10): degrees
AWAY_DELTA_DEFAULT == 10

\* Python's None where a temperature is expected
None == -1

\* d degrees in twentieths of a degree
Deg(d) == 20 * d

\* raw setpoints a user or the device's own keypad may choose: 70.25 F, 72 F
TempInputs == {1405, 1440}
\* configured away_delta values: the default and 6 degrees
AwayDeltas == {Deg(AWAY_DELTA_DEFAULT), Deg(6)}
\* device.tmode['human'] values
TModes == {"Cool", "Heat", "Off"}
\* device.temp['raw'] readings: 69 F
TempReadings == {1380}

----------------------------------------------------------------------------
(* round(x, 1): nearest tenth of a degree, ties to the even tenth.  A tenth  *)
(* is 2 units, so an odd x is a tie (x.x5); the raw values used are exact    *)
(* binary floats (quarters), for which Python's round is round-half-even.    *)
Round1(x) ==
    IF x % 2 = 0 THEN x
    ELSE IF ((x - 1) \div 2) % 2 = 0 THEN x - 1 ELSE x + 1

\* the target_temperature property
TargetTemperature == Round1(target_temperature)

----------------------------------------------------------------------------
(* RadioThermostat *)

\* what update() reads off a device d, given the target held so far
UpdateOf(d, target) ==
    [current   |-> d.temp,
     name      |-> d.name,
     target    |-> IF d.tmode = "Cool" THEN d.t_cool
                   ELSE IF d.tmode = "Heat" THEN d.t_heat
                   ELSE target,
     operation |-> IF d.tmode = "Cool" THEN STATE_COOL
                   ELSE IF d.tmode = "Heat" THEN STATE_HEAT
                   ELSE STATE_IDLE]

\* RadioThermostat.__init__: the entity built on device d, or raised = TRUE
\* when round(None, 1) raises TypeError at line 90
RadioThermostatInit(d, hold, delta) ==
    LET u == UpdateOf(d, None) IN
    [raised      |-> (u.target = None),
     target      |-> u.target,
     current     |-> u.current,
     operation   |-> u.operation,
     name        |-> u.name,
     hold_temp   |-> hold,
     away        |-> FALSE,
     away_delta  |-> delta,
     old_temp    |-> IF u.target = None THEN None ELSE Round1(u.target)]

\* the device as a read of its fields finds it; temp is the reading its sensor
\* gives at that moment
Device(temp) ==
    [tmode |-> dev_tmode, t_cool |-> dev_t_cool, t_heat |-> dev_t_heat,
     temp |-> temp, name |-> dev_name]

\* update(): a variant that drops away mode when the device's target moved
update_resets_away(temp) ==
    LET u == UpdateOf(Device(temp), target_temperature) IN
    /\ current_temperature' = u.current
    /\ name' = u.name
    /\ target_temperature' = u.target
    /\ operation' = u.operation
    /\ away' = IF u.target # target_temperature THEN FALSE ELSE away
    /\ UNCHANGED <<hold_temp, away_delta, old_temp, deviceVars>>

update(temp) ==
    LET u == UpdateOf(Device(temp), target_temperature) IN
    /\ current_temperature' = u.current
    /\ name' = u.name
    /\ target_temperature' = u.target
    /\ operation' = u.operation
    /\ UNCHANGED <<hold_temp, away, away_delta, old_temp, deviceVars>>

\* set_temperature writing the setpoint but leaving hold as it was
set_temperature_keeps_hold(temperature) ==
    /\ dev_t_cool' = IF operation = STATE_COOL THEN temperature ELSE dev_t_cool
    /\ dev_t_heat' = IF operation = STATE_HEAT THEN temperature ELSE dev_t_heat
    /\ UNCHANGED <<dev_hold, dev_tmode, dev_name>>

\* set_temperature writing the cool setpoint whatever the operation mode
set_temperature_always_cool(temperature) ==
    /\ dev_t_cool' = temperature
    /\ dev_hold' = IF hold_temp THEN 1 ELSE 0
    /\ UNCHANGED <<dev_t_heat, dev_tmode, dev_name>>

\* set_temperature(temperature): the writes to the device
set_temperature(temperature) ==
    /\ dev_t_cool' = IF operation = STATE_COOL THEN temperature ELSE dev_t_cool
    /\ dev_t_heat' = IF operation # STATE_COOL /\ operation = STATE_HEAT
                     THEN temperature ELSE dev_t_heat
    /\ dev_hold' = IF hold_temp THEN 1 ELSE 0
    /\ UNCHANGED <<dev_tmode, dev_name>>

\* turn_away_mode_on with the delta added in both modes
turn_away_mode_on_adds ==
    /\ away' = TRUE
    /\ old_temp' = TargetTemperature
    /\ IF operation \in {STATE_COOL, STATE_HEAT}
       THEN set_temperature(TargetTemperature + away_delta)
       ELSE UNCHANGED deviceVars
    /\ UNCHANGED <<target_temperature, current_temperature, operation, name,
                   hold_temp, away_delta>>

turn_away_mode_on ==
    /\ away' = TRUE
    /\ old_temp' = TargetTemperature
    /\ IF operation = STATE_COOL
       THEN set_temperature(TargetTemperature + away_delta)
       ELSE IF operation = STATE_HEAT
       THEN set_temperature(TargetTemperature - away_delta)
       ELSE UNCHANGED deviceVars
    /\ UNCHANGED <<target_temperature, current_temperature, operation, name,
                   hold_temp, away_delta>>

\* turn_away_mode_off that clears the flag but leaves the away setpoint
turn_away_mode_off_no_restore ==
    /\ away' = FALSE
    /\ UNCHANGED <<old_temp, target_temperature, current_temperature, operation,
                   name, hold_temp, away_delta, deviceVars>>

turn_away_mode_off ==
    /\ away' = FALSE
    /\ set_temperature(old_temp)
    /\ UNCHANGED <<old_temp, target_temperature, current_temperature, operation,
                   name, hold_temp, away_delta>>

\* the record kept of the calls: which operation ran last, and what
\* turn_away_mode_on found when it was entered
Seen(which) ==
    /\ op' = IF which = "turn_away_mode_off" /\ op = "turn_away_mode_on"
             THEN "turn_away_mode_on;turn_away_mode_off"
             ELSE which
    /\ on_target' = IF which = "turn_away_mode_on" THEN TargetTemperature
                     ELSE on_target
    /\ on_cool' = IF which = "turn_away_mode_on" THEN dev_t_cool
                   ELSE IF which = "turn_away_mode_off" /\ op = "turn_away_mode_on"
                   THEN on_cool ELSE None
    /\ on_heat' = IF which = "turn_away_mode_on" THEN dev_t_heat
                   ELSE IF which = "turn_away_mode_off" /\ op = "turn_away_mode_on"
                   THEN on_heat ELSE None
    /\ disturbed' = (disturbed \/ which \in {"set_temperature", "device"})

InRange(t) == MinTemp <= t /\ t <= MaxTemp

\* a step of the thermostat leaves the other platforms alone
ThermostatOnly == UNCHANGED <<setupVars, cameraVars>>

Update ==
    \E temp \in TempReadings :
        update(temp) /\ Seen("update") /\ ThermostatOnly

SetTemperature ==
    \E t \in TempInputs :
        /\ set_temperature(t)
        /\ UNCHANGED entityVars
        /\ Seen("set_temperature")
        /\ ThermostatOnly

TurnAwayModeOn ==
    /\ operation = STATE_COOL => InRange(TargetTemperature + away_delta)
    /\ operation = STATE_HEAT => InRange(TargetTemperature - away_delta)
    /\ turn_away_mode_on
    /\ Seen("turn_away_mode_on")
    /\ ThermostatOnly

TurnAwayModeOff ==
    turn_away_mode_off /\ Seen("turn_away_mode_off") /\ ThermostatOnly

\* the device changed from outside the adapter (keypad, schedule, other client)
DeviceMode ==
    \E m \in TModes :
        /\ m # dev_tmode
        /\ dev_tmode' = m
        /\ UNCHANGED <<dev_t_cool, dev_t_heat, dev_hold, dev_name>>
        /\ UNCHANGED entityVars
        /\ Seen("device")
    /\ ThermostatOnly
        /\ ThermostatOnly

DeviceSetpoint ==
    \E t \in TempInputs :
        /\ \/ dev_t_cool # t /\ dev_t_cool' = t /\ UNCHANGED dev_t_heat
           \/ dev_t_heat # t /\ dev_t_heat' = t /\ UNCHANGED dev_t_cool
        /\ UNCHANGED <<dev_tmode, dev_hold, dev_name>>
        /\ UNCHANGED entityVars
        /\ Seen("device")
    /\ ThermostatOnly
        /\ ThermostatOnly

DeviceHold ==
    /\ dev_hold' = 1 - dev_hold
    /\ UNCHANGED <<dev_tmode, dev_t_cool, dev_t_heat, dev_name>>
    /\ UNCHANGED entityVars
    /\ Seen("device")
    /\ ThermostatOnly

\* a RadioThermostat as setup_platform leaves it: built on a reachable device
ThermostatInit ==
    /\ dev_tmode \in TModes
    /\ dev_t_cool \in TempInputs
    /\ dev_t_heat \in TempInputs
    /\ dev_hold \in {0, 1}
    /\ dev_name = "tstat"
    /\ hold_temp \in BOOLEAN
    /\ away_delta \in AwayDeltas
    /\ \E temp \in TempReadings :
       LET e == RadioThermostatInit(Device(temp), hold_temp, away_delta) IN
       /\ ~e.raised
       /\ target_temperature = e.target
       /\ current_temperature = e.current
       /\ operation = e.operation
       /\ name = e.name
       /\ away = e.away
       /\ old_temp = e.old_temp
    /\ op = "init"
    /\ on_target = None
    /\ on_cool = None
    /\ on_heat = None
    /\ disturbed = FALSE

ThermostatNext ==
    \/ Update
    \/ SetTemperature
    \/ TurnAwayModeOn
    \/ TurnAwayModeOff
    \/ DeviceMode
    \/ DeviceSetpoint
    \/ DeviceHold

----------------------------------------------------------------------------
(* setup_platform of the radiotherm platform *)

\* what get_thermostat(host) finds behind a configured host
Unreachable ==
    [reachable |-> FALSE, tmode |-> "Off", t_cool |-> None, t_heat |-> None,
     temp |-> None, name |-> "unreachable"]

Thermostat(m) ==
    [reachable |-> TRUE, tmode |-> m, t_cool |-> 1440, t_heat |-> 1405,
     temp |-> 1380,
     name |-> CASE m = "Cool" -> "tstat in Cool"
                [] m = "Heat" -> "tstat in Heat"
                [] OTHER      -> "tstat in Off"]

Hosts == {Unreachable} \cup {Thermostat(m) : m \in TModes}

\* longest configured host list
MaxHosts == 3

HostLists == UNION {[1..n -> Hosts] : n \in 0..MaxHosts}

\* config[CONF_HOST]: a list, the key absent, or the key present with no value
HostSettings ==
    {[given |-> "list", list |-> l] : l \in HostLists}
      \cup {[given |-> "absent", list |-> <<>>], [given |-> "none", list |-> <<>>]}

\* hold_temp absent reads as False; away_delta absent is None here
Configs == [host : HostSettings, hold_temp : BOOLEAN, away_delta : {None, Deg(6)}]

\* the for loop of setup_platform from host i on; acc is what it built so far
RECURSIVE SetupLoop(_, _, _, _, _)
SetupLoop(hosts, i, hold, delta, acc) ==
    IF i > Len(hosts) THEN acc
    ELSE IF ~hosts[i].reachable
    THEN SetupLoop(hosts, i + 1, hold, delta,
                   [acc EXCEPT !.logged = Append(@, i)])
    ELSE LET e == RadioThermostatInit(hosts[i], hold, delta) IN
         IF e.raised
         THEN [acc EXCEPT !.raised = TRUE]
         ELSE SetupLoop(hosts, i + 1, hold, delta,
                        [acc EXCEPT !.tstats = Append(@, e)])

\* the hosts setup_platform iterates over
HostsOf(cfg, found) ==
    IF cfg.host.given = "absent" THEN <<found>> ELSE cfg.host.list

SetupPlatform ==
    /\ setup_result = "not run"
    /\ IF config.host.given = "none"
       THEN /\ setup_result' = "no thermostats detected"
            /\ UNCHANGED <<added, logged>>
       ELSE LET hold  == config.hold_temp
                delta == IF config.away_delta = None
                         THEN Deg(AWAY_DELTA_DEFAULT) ELSE config.away_delta
                r == SetupLoop(HostsOf(config, discovered), 1, hold, delta,
                               [tstats |-> <<>>, logged |-> <<>>, raised |-> FALSE])
            IN  /\ logged' = r.logged
                /\ IF r.raised
                   THEN setup_result' = "raised TypeError" /\ UNCHANGED added
                   ELSE setup_result' = "add_devices called" /\ added' = r.tstats
    /\ UNCHANGED <<config, discovered>>
    /\ UNCHANGED <<thermoVars, cameraVars>>

SetupInit ==
    /\ config \in Configs
    /\ discovered \in (IF config.host.given = "absent" THEN Hosts ELSE {Unreachable})
    /\ setup_result = "not run"
    /\ added = <<>>
    /\ logged = <<>>

----------------------------------------------------------------------------
(* BloomSkyCamera *)

MISSING  == "<no ImageURL>"
NOT_RUN  == "<not run>"
NO_VALUE == "<no value>"
NONE_RET == "<None>"

\* image URLs the BloomSky API reports, and contents its image server serves
URLs   == {"http://bloomsky/a.jpg", "http://bloomsky/b.jpg"}
Images == {"bytes 1", "bytes 2"}
\* how a network call ends: normally, with a requests RequestException
\* (timeout, connection error), or with any other exception
Results == {"ok", "RequestException", "OtherError"}

\* the record of a call that made no GET
NoGet ==
    /\ get_result' = NOT_RUN
    /\ gets' = 0
    /\ fetched' = ""

Returns(value) == outcome' = "returned" /\ ret' = value
Raises == outcome' = "raised" /\ ret' = NO_VALUE

\* a comparison that always finds the URL changed
UrlChanged_always == TRUE

\* line 47: the URL read differs from the URL of the cached image
UrlChanged == image_url # last_url

\* the new image stored without its URL
Store_forgets_url(content) ==
    /\ UNCHANGED last_url
    /\ last_image' = content

\* lines 49-50: the response becomes the cache
Store(content) ==
    /\ last_url' = image_url
    /\ last_image' = content

\* a failure that empties the cached image
KeepCache_drops_image ==
    /\ UNCHANGED last_url
    /\ last_image' = ""

\* a failed refresh or GET leaves the except clause with the cache untouched
KeepCache == UNCHANGED <<last_url, last_image>>

\* camera_image(): refresh is how refresh_devices() ends and new_url what it
\* leaves in the device record; get is how requests.get ends and content its
\* response.content
camera_image(refresh, new_url, get, content) ==
    /\ tick' = 1 - tick
    /\ IF image_url = MISSING
       THEN \* line 44 raises KeyError, which the except clause does not catch
            /\ observed' = MISSING
            /\ refresh_result' = NOT_RUN
            /\ NoGet
            /\ Raises
            /\ UNCHANGED <<image_url, url, last_url, last_image>>
       ELSE /\ url' = image_url
            /\ observed' = image_url
            /\ refresh_result' = refresh
            /\ image_url' = IF refresh = "ok" THEN new_url ELSE image_url
            /\ IF refresh # "ok"
               THEN /\ NoGet
                    /\ KeepCache
                    /\ IF refresh = "RequestException"
                       THEN Returns(NONE_RET) ELSE Raises
               ELSE IF UrlChanged
               THEN /\ gets' = 1
                    /\ get_result' = get
                    /\ IF get = "ok"
                       THEN /\ fetched' = content
                            /\ Store(content)
                            /\ Returns(last_image')
                       ELSE /\ fetched' = ""
                            /\ KeepCache
                            /\ IF get = "RequestException"
                               THEN Returns(NONE_RET) ELSE Raises
               ELSE /\ NoGet
                    /\ UNCHANGED <<last_url, last_image>>
                    /\ Returns(last_image)

CameraImage ==
    \E refresh \in Results, new_url \in URLs \cup {MISSING},
       get \in Results, content \in Images :
        /\ camera_image(refresh, new_url, get, content)
        /\ UNCHANGED <<thermoVars, setupVars>>

\* the BloomSky component refreshes its device records on its own schedule
BloomSkyRefresh ==
    /\ \E u \in URLs \cup {MISSING} : u # image_url /\ image_url' = u
    /\ UNCHANGED <<url, last_url, last_image, tick, observed, refresh_result,
                   get_result, gets, fetched, outcome, ret>>
    /\ UNCHANGED <<thermoVars, setupVars>>

\* BloomSkyCamera.__init__
CameraInit ==
    /\ image_url \in URLs \cup {MISSING}
    /\ url = ""
    /\ last_url = ""
    /\ last_image = ""
    /\ tick = 0
    /\ observed = ""
    /\ refresh_result = NOT_RUN
    /\ get_result = NOT_RUN
    /\ gets = 0
    /\ fetched = ""
    /\ outcome = "not called"
    /\ ret = NO_VALUE

----------------------------------------------------------------------------
(* The specifications: one per platform, the other platforms left alone *)

ThermostatParked ==
    /\ dev_tmode = "Cool" /\ dev_t_cool = 1440 /\ dev_t_heat = 1405
    /\ dev_hold = 0 /\ dev_name = "tstat"
    /\ target_temperature = 1440 /\ current_temperature = 1380
    /\ operation = STATE_COOL /\ name = "tstat" /\ hold_temp = FALSE
    /\ away = FALSE /\ away_delta = Deg(AWAY_DELTA_DEFAULT) /\ old_temp = 1440
    /\ op = "init" /\ on_target = None /\ on_cool = None /\ on_heat = None
    /\ disturbed = FALSE

SetupParked ==
    /\ config = [host |-> [given |-> "none", list |-> <<>>],
                 hold_temp |-> FALSE, away_delta |-> None]
    /\ discovered = Unreachable
    /\ setup_result = "not run"
    /\ added = <<>>
    /\ logged = <<>>

CameraParked ==
    /\ image_url = MISSING /\ url = "" /\ last_url = "" /\ last_image = ""
    /\ tick = 0 /\ observed = "" /\ refresh_result = NOT_RUN
    /\ get_result = NOT_RUN /\ gets = 0 /\ fetched = ""
    /\ outcome = "not called" /\ ret = NO_VALUE

InitThermostat == ThermostatInit /\ SetupParked /\ CameraParked

SpecThermostat == InitThermostat /\ [][ThermostatNext]_vars

InitSetup == SetupInit /\ ThermostatParked /\ CameraParked

SetupNext == SetupPlatform

SpecSetup == InitSetup /\ [][SetupNext]_vars

InitCamera == CameraInit /\ ThermostatParked /\ SetupParked

CameraNext ==
    \/ CameraImage
    \/ BloomSkyRefresh

SpecCamera == InitCamera /\ [][CameraNext]_vars

----------------------------------------------------------------------------
(* Properties of RadioThermostat *)

\* the device setpoint of the entity's current operation mode is t
EffectiveTargetIs(t) ==
    /\ operation = STATE_COOL => dev_t_cool = t
    /\ operation = STATE_HEAT => dev_t_heat = t

\* while away, the effective target is old_temp + delta in cool mode and
\* old_temp - delta in heat mode
AwayTargetHolds ==
    /\ operation = STATE_COOL => dev_t_cool = old_temp + away_delta
    /\ operation = STATE_HEAT => dev_t_heat = old_temp - away_delta

\* C1: turn_away_mode_on followed immediately by turn_away_mode_off leaves the
\* device setpoint of the current mode equal to the target temperature the
\* entity had before turn_away_mode_on, and the away flag false; the setpoint
\* of a mode the entity is not in (both, when idle) is the one the device had.
C1_AwayOnOffRestoresTarget ==
    op = "turn_away_mode_on;turn_away_mode_off" =>
        /\ away = FALSE
        /\ EffectiveTargetIs(on_target)
        /\ TargetTemperature = on_target
        /\ operation # STATE_COOL => dev_t_cool = on_cool
        /\ operation # STATE_HEAT => dev_t_heat = on_heat

\* a cool-mode entity whose raw target 70.25 F reads 70.2 F went away and came
\* back: the cool setpoint is 70.2 F again
C1_Witness ==
    /\ op = "turn_away_mode_on;turn_away_mode_off"
    /\ operation = STATE_COOL
    /\ target_temperature = 1405
    /\ on_target = 1404
    /\ dev_t_cool = 1404
    /\ ~away

C3_AwayOnAppliesDelta ==
    op = "turn_away_mode_on" =>
        /\ old_temp = on_target
        /\ operation = STATE_COOL => dev_t_cool = on_target + away_delta
        /\ operation = STATE_HEAT => dev_t_heat = on_target - away_delta

C3_Witness ==
    /\ op = "turn_away_mode_on"
    /\ operation = STATE_HEAT
    /\ away_delta = Deg(AWAY_DELTA_DEFAULT)
    /\ old_temp = 1404
    /\ dev_t_heat = 1404 - Deg(AWAY_DELTA_DEFAULT)

\* C9: after every call of set_temperature, made directly or by
\* turn_away_mode_on / turn_away_mode_off, the device hold flag is 1 if
\* hold_temp is true and 0 otherwise.
C9_HoldFollowsConfig ==
    (\/ op \in {"set_temperature", "turn_away_mode_off",
                "turn_away_mode_on;turn_away_mode_off"}
     \/ op = "turn_away_mode_on" /\ operation \in {STATE_COOL, STATE_HEAT})
    => dev_hold = (IF hold_temp THEN 1 ELSE 0)

C9_Witness ==
    /\ op = "turn_away_mode_on"
    /\ operation = STATE_HEAT
    /\ hold_temp
    /\ dev_hold = 1

\* C10: update never changes the away flag or the saved old_temp.
C10_UpdateKeepsAway ==
    [][op' = "update" => (away' = away /\ old_temp' = old_temp)]_vars

\* update ran while away was on and found a target that is not the away
\* setpoint (it was changed on the device); the entity is still away
C10_Witness ==
    /\ op = "update"
    /\ away
    /\ operation = STATE_COOL
    /\ target_temperature = dev_t_cool
    /\ target_temperature # old_temp + away_delta

----------------------------------------------------------------------------
(* Properties of BloomSkyCamera *)

\* a step that is a camera_image call
IsCall == tick' # tick

\* C4 (as claimed): if the URL is the same at two consecutive camera_image
\* calls, the second performs no GET and returns what the first returned,
\* whatever the outcome of the first call was.
C4_SameURLNoGet ==
    [][(IsCall /\ outcome # "not called" /\ observed # MISSING
           /\ observed' = observed)
       => (gets' = 0 /\ outcome' = outcome /\ ret' = ret)]_vars

\* C4 (amended): if the URL is the same at two consecutive calls and the first
\* call returned image bytes, the second performs no GET and leaves the cache
\* alone; it returns the same bytes when its refresh succeeds, null when the
\* refresh ends in a RequestException, and raises otherwise.
C4_SameURLNoGetAfterImage ==
    [][(IsCall /\ outcome = "returned" /\ ret # NONE_RET
           /\ observed' = observed)
       => /\ gets' = 0
          /\ last_url' = last_url /\ last_image' = last_image
          /\ refresh_result' = "ok" => (outcome' = "returned" /\ ret' = ret)
          /\ refresh_result' = "RequestException"
                => (outcome' = "returned" /\ ret' = NONE_RET)
          /\ refresh_result' = "OtherError" => outcome' = "raised"]_vars

\* a call found the URL of the cached image and returned the cached bytes
\* without a GET
C4_Witness ==
    /\ outcome = "returned"
    /\ refresh_result = "ok"
    /\ gets = 0
    /\ get_result = NOT_RUN
    /\ observed = last_url
    /\ ret = last_image
    /\ ret \in Images

\* C5 (as claimed): a call that observes a URL different from the cached URL
\* performs exactly one GET, and afterwards the cache holds the bytes fetched
\* from the new URL and the new URL.
C5_NewURLFetched ==
    [][(IsCall /\ observed' # MISSING /\ observed' # last_url)
       => /\ gets' = 1
          /\ get_result' = "ok"
          /\ last_url' = observed'
          /\ last_image' = fetched']_vars

\* C5 (amended): such a call performs one GET if its refresh succeeds and none
\* otherwise; if the GET succeeds the cache holds the fetched bytes and the new
\* URL, and in every other case the cache is unchanged.
C5_NewURLFetchedIfGetSucceeds ==
    [][(IsCall /\ observed' # MISSING /\ observed' # last_url)
       => /\ gets' = (IF refresh_result' = "ok" THEN 1 ELSE 0)
          /\ get_result' = "ok"
                => (/\ last_url' = observed'
                    /\ last_image' = fetched'
                    /\ fetched' \in Images)
          /\ get_result' # "ok"
                => (last_url' = last_url /\ last_image' = last_image)]_vars

\* a call replaced a cached image by the bytes fetched from another URL
C5_Witness ==
    /\ outcome = "returned"
    /\ gets = 1
    /\ get_result = "ok"
    /\ last_url = observed
    /\ last_image = fetched
    /\ ret = fetched
    /\ fetched = "bytes 2"
    /\ observed = "http://bloomsky/b.jpg"

\* C6: camera_image never raises; it returns image bytes or null, and null
\* when the GET fails.
C6_NeverRaises ==
    /\ outcome # "raised"
    /\ outcome = "returned" => ret \in Images \cup {NONE_RET}
    /\ get_result \in {"RequestException", "OtherError"}
          => (outcome = "returned" /\ ret = NONE_RET)

\* C7: the cached URL and bytes change only in a call that observed a URL
\* different from the cached URL and whose refresh and GET succeeded.
C7_CacheReplacedOnlyOnNewURL ==
    [][(last_url' # last_url \/ last_image' # last_image)
       => /\ IsCall
          /\ observed' # MISSING
          /\ observed' # last_url
          /\ refresh_result' = "ok"
          /\ get_result' = "ok"]_vars

\* a call saw a new URL, its GET failed, and the earlier image is still cached
C7_Witness ==
    /\ get_result = "RequestException"
    /\ gets = 1
    /\ observed # last_url
    /\ last_url \in URLs
    /\ last_image \in Images
    /\ ret = NONE_RET

----------------------------------------------------------------------------
(* Properties of setup_platform *)

IsReachable(h) == h.reachable

NamesOf(seq) == [i \in 1..Len(seq) |-> seq[i].name]

\* C8: for every configured host list, setup_platform finishes and hands
\* add_devices one entity per host that connected, in host order, whatever
\* mode each connected device reports.
C8_OneEntityPerConnectedHost ==
    (setup_result # "not run" /\ config.host.given = "list")
    => /\ setup_result = "add_devices called"
       /\ NamesOf(added) = NamesOf(SelectSeq(config.host.list, IsReachable))

====
